---------------------------- MODULE Spec2Model ----------------------------
(***************************************************************************)
(* A model of Projects/flaskapplication/app.py: a Flask application with   *)
(* four view functions (hello, about, contact, user) bound to the rules    *)
(* "/", "/about", "/contact" and "/user/<name>".                           *)
(*                                                                         *)
(* Text is modelled as a sequence of tokens.  A token is a string that     *)
(* stands for one or more characters none of which is split further; the   *)
(* token "/" is the path separator and no other token contains a slash.    *)
(* The text "/user/about" is <<"/", "user", "/", "about">> and the empty   *)
(* text is << >>.                                                          *)
(***************************************************************************)
EXTENDS Naturals, Sequences, FiniteSets, TLC

VARIABLES
    url_map,        \* app.url_map: the set of registered rules
    templates,      \* the application's template folder: template name -> source
    ctx,            \* per worker: the request context of the request it handles
    engineFailed    \* history: some call of the template engine has raised

vars == <<url_map, templates, ctx, engineFailed>>

-----------------------------------------------------------------------------
(* Bounds *)

\* Number of workers of the server runtime that handle requests concurrently.
MaxWorkers == 2

\* Longest <name> segment, in tokens, that a request carries.
MaxNameLen == 1

Workers == 1..MaxWorkers

-----------------------------------------------------------------------------
(* Text *)

SLASH == "/"

\* The tokens a <name> segment is made of: a word that is also the name of
\* another route, a character HTML gives a meaning to, and white space.
NameTokens == {"about", "<", " "}

RECURSIVE SeqsUpTo(_, _)
SeqsUpTo(S, n) ==
    IF n = 0 THEN {<< >>}
    ELSE LET shorter == SeqsUpTo(S, n - 1)
         IN  shorter \cup {Append(s, t) : s \in shorter, t \in S}

\* Every segment requested, the empty one included.
Names == SeqsUpTo(NameTokens, MaxNameLen)

\* The characters HTML gives a meaning to.
HtmlChars == {"&", "<", ">", "'", "\""}

\* Every segment requested of a server that handles one request at a time:
\* those of Names and those made of the characters of HTML as well.
AnyNames == SeqsUpTo(NameTokens \cup HtmlChars, MaxNameLen)

\* The request paths the clients send (PATH_INFO, already URL-decoded).
Paths ==
    {  <<SLASH>>,
       <<SLASH, "about">>,
       <<SLASH, "contact">>,
       <<SLASH, "about", SLASH>>,
       <<SLASH, "user">>,
       <<SLASH, "user", SLASH, "about", SLASH>>,
       <<SLASH, "user", SLASH, "about", SLASH, "about">>,
       <<SLASH, "static", SLASH, "about">>  }
    \cup {<<SLASH, "user", SLASH>> \o n : n \in Names}

\* The request paths sent to a server that handles one request at a time.
SerialPaths == Paths \cup {<<SLASH, "user", SLASH>> \o n : n \in AnyNames}

-----------------------------------------------------------------------------
(* The route table *)

Lit(t) == [kind |-> "lit", val |-> t]
Conv(c, arg) == [kind |-> c, val |-> arg]

\* The rule Flask(__name__) registers for the application's static folder.
StaticRule ==
    [rule |-> <<Lit(SLASH), Lit("static"), Lit(SLASH), Conv("path", "filename")>>,
     endpoint |-> "static"]

\* @app.route('/')
HelloRule == [rule |-> <<Lit(SLASH)>>, endpoint |-> "hello"]

\* @app.route("/about")
AboutRule == [rule |-> <<Lit(SLASH), Lit("about")>>, endpoint |-> "about"]

\* @app.route("/contact")
ContactRule == [rule |-> <<Lit(SLASH), Lit("contact")>>, endpoint |-> "contact"]

\* @app.route("/user/<name>"): <name> has the default (string) converter.
UserRule ==
    [rule |-> <<Lit(SLASH), Lit("user"), Lit(SLASH), Conv("string", "name")>>,
     endpoint |-> "user"]

\* A route table in which /user/about is also bound to about.
AppRoutes_overlap ==
    {HelloRule, AboutRule, ContactRule, UserRule,
     [rule |-> <<Lit(SLASH), Lit("user"), Lit(SLASH), Lit("about")>>,
      endpoint |-> "about"]}

\* The rules the decorators of app.py register, each with its endpoint.
AppRoutes == {HelloRule, AboutRule, ContactRule, UserRule}

\* The endpoints whose view functions are defined by app.py.
AppEndpoints == {"hello", "about", "contact", "user"}

NoArgs == [a \in {} |-> << >>]

\* The text a converter accepts as the value of its variable: the string
\* converter one or more characters other than a slash, the path converter
\* any text that does not begin with a slash.
ConverterAccepts(kind, seg) ==
    CASE kind = "string" -> seg # << >> /\ \A i \in 1..Len(seg) : seg[i] # SLASH
      [] kind = "path"   -> seg # << >> /\ seg[1] # SLASH
      [] OTHER           -> FALSE

\* The variable bindings under which the whole of path matches the rule
\* parts: the empty set when it does not match.
RECURSIVE MatchParts(_, _)
MatchParts(parts, path) ==
    IF parts = << >> THEN (IF path = << >> THEN {NoArgs} ELSE {})
    ELSE LET p == Head(parts)
         IN  IF p.kind = "lit"
             THEN IF path # << >> /\ Head(path) = p.val
                  THEN MatchParts(Tail(parts), Tail(path))
                  ELSE {}
             ELSE UNION { IF ConverterAccepts(p.kind, SubSeq(path, 1, k))
                          THEN {(p.val :> SubSeq(path, 1, k)) @@ b :
                                  b \in MatchParts(Tail(parts),
                                                   SubSeq(path, k + 1, Len(path)))}
                          ELSE {} : k \in 0..Len(path) }

\* The (rule, bindings) pairs of a route table that match a path.
Matches(map, path) ==
    UNION {{<<r, b>> : b \in MatchParts(r.rule, path)} : r \in map}

NotFoundMatch == [endpoint |-> "", view_args |-> NoArgs]

\* Routing of a request: the endpoint and the view arguments of the
\* matching rule, or no endpoint when no rule matches.
MatchRequest(map, path) ==
    LET found == Matches(map, path)
    IN  IF found = {} THEN NotFoundMatch
        ELSE LET m == CHOOSE m \in found : TRUE
             IN  [endpoint |-> m[1].endpoint, view_args |-> m[2]]

-----------------------------------------------------------------------------
(* The template engine *)

Text(t) == [kind |-> "text", val |-> t]
Expr(v) == [kind |-> "expr", val |-> v]
SafeExpr(v) == [kind |-> "safe", val |-> v]

\* templates/index.html: a document that references the variable name twice.
IndexHtml ==
    [ok |-> TRUE,
     parts |-> <<Text("<h1>Hello "), Expr("name"), Text("</h1><p>"),
                 Expr("name"), Text("</p>")>>]

\* templates/index.html: a document that references the variable name once
\* as it is and once through the filter safe.
IndexHtmlSafe ==
    [ok |-> TRUE,
     parts |-> <<Text("<title>"), Expr("name"), Text("</title><p>"),
                 SafeExpr("name"), Text("</p>")>>]

\* A templates/index.html that the engine cannot compile.
BrokenHtml == [ok |-> FALSE, parts |-> << >>]

\* The template folders the application is deployed with: without
\* index.html, with one that does not compile, with one that renders.
TemplateFolders ==
    {[t \in {} |-> BrokenHtml]} \cup
    {[t \in {"index.html"} |-> s] : s \in {BrokenHtml, IndexHtml}}

\* The same, and with an index.html that marks a reference safe.
SerialTemplateFolders ==
    TemplateFolders \cup {[t \in {"index.html"} |-> IndexHtmlSafe]}

Return(body) == [kind |-> "return", body |-> body, exc |-> ""]
Raise(e) == [kind |-> "raise", body |-> << >>, exc |-> e]

\* An escape that leaves every character as it is.
EscapeToken_none(t) == t

\* HTML escaping of one token, as applied to a value substituted into a
\* template whose name ends in .html.
EscapeToken(t) ==
    CASE t = "&" -> "&amp;"
      [] t = "<" -> "&lt;"
      [] t = ">" -> "&gt;"
      [] t = "'" -> "&#39;"
      [] t = "\"" -> "&#34;"
      [] OTHER   -> t

Escape(text) == [i \in 1..Len(text) |-> EscapeToken(text[i])]

\* The document a template renders to under a context: its text as
\* written, each expression replaced by the escaped value of its variable
\* (by the value as it is when the expression marks it safe), or by
\* nothing when the context does not define the variable.
RECURSIVE Render(_, _)
Render(parts, context) ==
    IF parts = << >> THEN << >>
    ELSE LET p == Head(parts)
             out == IF p.kind = "text" THEN <<p.val>>
                    ELSE IF p.val \notin DOMAIN context THEN << >>
                    ELSE IF p.kind = "safe" THEN context[p.val]
                    ELSE Escape(context[p.val])
         IN  out \o Render(Tail(parts), context)

\* render_template(template_name, **context): the rendered document, or
\* the exception of the engine when the template is missing or broken.
render_template(template_name, context) ==
    IF template_name \notin DOMAIN templates THEN Raise("TemplateNotFound")
    ELSE IF ~templates[template_name].ok THEN Raise("TemplateSyntaxError")
    ELSE Return(Render(templates[template_name].parts, context))

\* One invocation of the template engine and what it gave back.
EngineCall(template_name, context) ==
    [template |-> template_name, context |-> context,
     result |-> render_template(template_name, context)]

-----------------------------------------------------------------------------
(* The view functions of app.py.  Each yields the calls it makes to the    *)
(* template engine and its outcome: the text it returns or the exception   *)
(* that leaves it.                                                         *)

Effect(calls, outcome) == [calls |-> calls, outcome |-> outcome]

\* A hello whose text depends on the requests being handled.
hello_counting ==
    Effect(<< >>,
           Return(IF \E w \in Workers : ctx[w].pc = "responded"
                  THEN <<"HELLO WORLD", " again">> ELSE <<"HELLO WORLD">>))

\* A hello with the text in another case.
hello_lower == Effect(<< >>, Return(<<"Hello World">>))

\* def hello(): return "HELLO WORLD"
hello == Effect(<< >>, Return(<<"HELLO WORLD">>))

\* An about that returns the text of contact.
about_contact == Effect(<< >>, Return(<<"Contact Us">>))

\* An about that renders a template of its own.
about_templated ==
    LET call == EngineCall("about.html", NoArgs)
    IN  Effect(<<call>>, call.result)

\* def about(): return "This is about"
about == Effect(<< >>, Return(<<"This is about">>))

\* A contact that fails once the template engine has failed.
contact_sticky ==
    Effect(<< >>, IF engineFailed THEN Raise("RuntimeError")
                  ELSE Return(<<"Contact Us">>))

\* A contact with the text in another case.
contact_lower == Effect(<< >>, Return(<<"Contact us">>))

\* def contact(): return "Contact Us"
contact == Effect(<< >>, Return(<<"Contact Us">>))

\* name.strip(): the text without its leading and trailing white space.
RECURSIVE Strip(_)
Strip(text) ==
    IF text = << >> THEN text
    ELSE IF Head(text) = " " THEN Strip(Tail(text))
    ELSE IF text[Len(text)] = " " THEN Strip(SubSeq(text, 1, Len(text) - 1))
    ELSE text

\* A user that strips the name before it renders.
user_strip(name) ==
    LET call == EngineCall("index.html", "name" :> Strip(name))
    IN  Effect(<<call>>, call.result)

\* A user that answers with a page of its own when the engine fails.
user_catching(name) ==
    LET call == EngineCall("index.html", "name" :> name)
    IN  Effect(<<call>>, IF call.result.kind = "raise"
                         THEN Return(<<"Something went wrong">>)
                         ELSE call.result)

\* def user(name): return render_template("index.html", name=name)
user(name) ==
    LET call == EngineCall("index.html", "name" :> name)
    IN  Effect(<<call>>, call.result)

\* The view of the static rule: the sources hold no static file, so every
\* file name is unknown to it.
send_static_file(filename) == Effect(<< >>, Raise("NotFound"))

\* app.view_functions[endpoint](**view_args)
ViewFunction(endpoint, view_args) ==
    CASE endpoint = "hello"   -> hello
      [] endpoint = "about"   -> about
      [] endpoint = "contact" -> contact
      [] endpoint = "user"    -> user(view_args["name"])
      [] endpoint = "static"  -> send_static_file(view_args["filename"])

\* The response the runtime sends for an outcome: the returned text with
\* status 200, its own page for the exception otherwise.
MakeResponse(outcome) ==
    CASE outcome.kind = "return"                         ->
             [status |-> 200, body |-> outcome.body]
      [] outcome.kind = "raise" /\ outcome.exc = "NotFound" ->
             [status |-> 404, body |-> <<"Not Found">>]
      [] OTHER                                           ->
             [status |-> 500, body |-> <<"Internal Server Error">>]

-----------------------------------------------------------------------------
(* The request contexts *)

NoOutcome == [kind |-> "none", body |-> << >>, exc |-> ""]
NoResponse == [status |-> 0, body |-> << >>]

IdleCtx ==
    [pc |-> "idle", path |-> << >>, endpoint |-> "", view_args |-> NoArgs,
     calls |-> << >>, outcome |-> NoOutcome, response |-> NoResponse]

\* View arguments read from whichever worker's request was matched, as if
\* they were kept in one variable of the module.
CurrentViewArgs_shared(w) ==
    LET same == {v \in Workers : /\ ctx[v].pc = "matched"
                                 /\ DOMAIN ctx[v].view_args = DOMAIN ctx[w].view_args}
    IN  ctx[CHOOSE v \in same : TRUE].view_args

\* The view arguments of the request the worker handles: the arguments
\* with which its view function is called.
CurrentViewArgs(w) == ctx[w].view_args

Init ==
    /\ url_map = {StaticRule} \cup AppRoutes
    /\ templates \in TemplateFolders
    /\ ctx = [w \in Workers |-> IdleCtx]
    /\ engineFailed = FALSE

\* The runtime receives a request and matches its path against the route
\* table.
Accept(w, path) ==
    /\ ctx[w].pc = "idle"
    /\ LET m == MatchRequest(url_map, path)
       IN  ctx' = [ctx EXCEPT ![w] =
                      [IdleCtx EXCEPT !.pc = "matched", !.path = path,
                                      !.endpoint = m.endpoint,
                                      !.view_args = m.view_args]]
    /\ UNCHANGED <<url_map, templates, engineFailed>>

\* The runtime calls the view function of the matched endpoint, or raises
\* NotFound when no rule matched.
Dispatch(w) ==
    /\ ctx[w].pc = "matched"
    /\ LET effect == IF ctx[w].endpoint = ""
                     THEN Effect(<< >>, Raise("NotFound"))
                     ELSE ViewFunction(ctx[w].endpoint, CurrentViewArgs(w))
       IN  /\ ctx' = [ctx EXCEPT ![w] =
                         [@ EXCEPT !.pc = "responded", !.calls = effect.calls,
                                   !.outcome = effect.outcome,
                                   !.response = MakeResponse(effect.outcome)]]
           /\ engineFailed' =
                  (engineFailed \/
                   \E i \in 1..Len(effect.calls) : effect.calls[i].result.kind = "raise")
    /\ UNCHANGED <<url_map, templates>>

\* The response is sent and the request context is discarded.
Finish(w) ==
    /\ ctx[w].pc = "responded"
    /\ ctx' = [ctx EXCEPT ![w] = IdleCtx]
    /\ UNCHANGED <<url_map, templates, engineFailed>>

Next ==
    \E w \in Workers :
        \/ \E path \in Paths : Accept(w, path)
        \/ Dispatch(w)
        \/ Finish(w)

Spec == Init /\ [][Next]_vars

\* A server with one worker: the requests are handled one at a time.
SerialInit ==
    /\ url_map = {StaticRule} \cup AppRoutes
    /\ templates \in SerialTemplateFolders
    /\ ctx = [w \in Workers |-> IdleCtx]
    /\ engineFailed = FALSE

SerialNext ==
    \/ \E path \in SerialPaths : Accept(1, path)
    \/ Dispatch(1)
    \/ Finish(1)

SerialSpec == SerialInit /\ [][SerialNext]_vars

-----------------------------------------------------------------------------
(* Vocabulary of the properties *)

Responded(w) == ctx[w].pc = "responded"

\* The path /user/{v}.
UserPath(v) == <<SLASH, "user", SLASH>> \o v

RootPath == <<SLASH>>
AboutPath == <<SLASH, "about">>
ContactPath == <<SLASH, "contact">>

\* index.html is present and compiles.
TemplateRenders == "index.html" \in DOMAIN templates /\ templates["index.html"].ok

\* The document in which plain stands wherever the template references
\* the variable var as it is and marked stands wherever it references var
\* through the filter safe, the rest of the template as written.
RECURSIVE Substituted(_, _, _, _)
Substituted(parts, var, plain, marked) ==
    IF parts = << >> THEN << >>
    ELSE (IF Head(parts).kind = "text" THEN <<Head(parts).val>>
          ELSE IF Head(parts).val # var THEN << >>
          ELSE IF Head(parts).kind = "safe" THEN marked ELSE plain)
         \o Substituted(Tail(parts), var, plain, marked)

\* The HTML entity form of a text: & < > ' " replaced by their entities.
HtmlEntities(v) ==
    [i \in 1..Len(v) |->
        CASE v[i] = "&"  -> "&amp;"
          [] v[i] = "<"  -> "&lt;"
          [] v[i] = ">"  -> "&gt;"
          [] v[i] = "'"  -> "&#39;"
          [] v[i] = "\"" -> "&#34;"
          [] OTHER       -> v[i]]

\* The rules of the route table bound to view functions of app.py.
AppRules == {r \in url_map : r.endpoint \in AppEndpoints}

\* The rules of app.py that a path matches.
AppRulesMatching(path) == {r \in AppRules : MatchParts(r.rule, path) # {}}

-----------------------------------------------------------------------------
(* C1 *)

\* C1 as stated: for every string value v of the path segment of
\* /user/{v}, the empty one included, when index.html renders, the response
\* body is index.html with v itself, unescaped and unaltered, wherever the
\* template references name.
C1_Original ==
    \A v \in AnyNames :
        (Responded(1) /\ ctx[1].path = UserPath(v) /\ TemplateRenders)
        => ctx[1].response.body =
               Substituted(templates["index.html"].parts, "name", v, v)

\* C1 amended: for every non-empty string value v of the path segment of
\* /user/{v}, when index.html renders, the response has status 200 and its
\* body is index.html with v substituted wherever the template references
\* name: in HTML-escaped form (& < > ' " replaced by their entities, v
\* itself when it has none of them) at a reference as it is, and unaltered
\* only at a reference the template marks safe; for the empty value the
\* runtime answers 404 Not Found and nothing is rendered.
C1_EscapedSubstitution ==
    \A v \in AnyNames :
        (Responded(1) /\ ctx[1].path = UserPath(v) /\ TemplateRenders)
        => IF v = << >>
           THEN /\ ctx[1].response = [status |-> 404, body |-> <<"Not Found">>]
                /\ ctx[1].calls = << >>
           ELSE ctx[1].response =
                    [status |-> 200,
                     body |-> Substituted(templates["index.html"].parts, "name",
                                          HtmlEntities(v), v)]

\* A request whose segment is a character of HTML other than < has been
\* answered from a template with both kinds of reference.
C1_Witness ==
    \E c \in HtmlChars \ {"<"} :
        /\ Responded(1) /\ ctx[1].path = UserPath(<<c>>)
        /\ templates = [t \in {"index.html"} |-> IndexHtmlSafe]
        /\ ctx[1].response.status = 200
        /\ ctx[1].response.body =
               <<"<title>", HtmlEntities(<<c>>)[1], "</title><p>", c, "</p>">>
        /\ HtmlEntities(<<c>>)[1] # c

-----------------------------------------------------------------------------
(* C2, C3, C4 *)

\* C2: every request to / is answered with status 200 and exactly the
\* text HELLO WORLD, whatever the other workers do and whatever happened
\* before.
C2_HelloBody ==
    \A w \in Workers :
        (Responded(w) /\ ctx[w].path = RootPath)
        => ctx[w].response = [status |-> 200, body |-> <<"HELLO WORLD">>]

C2_Witness ==
    \E w \in Workers :
        /\ Responded(w) /\ ctx[w].path = RootPath /\ engineFailed
        /\ ctx[w].response.body = <<"HELLO WORLD">>

\* C3: every request to /about is answered with status 200 and exactly
\* the text This is about.
C3_AboutBody ==
    \A w \in Workers :
        (Responded(w) /\ ctx[w].path = AboutPath)
        => ctx[w].response = [status |-> 200, body |-> <<"This is about">>]

C3_Witness ==
    \E w \in Workers :
        /\ Responded(w) /\ ctx[w].path = AboutPath /\ engineFailed
        /\ ctx[w].response.body = <<"This is about">>

\* C4: every request to /contact is answered with status 200 and exactly
\* the text Contact Us.
C4_ContactBody ==
    \A w \in Workers :
        (Responded(w) /\ ctx[w].path = ContactPath)
        => ctx[w].response = [status |-> 200, body |-> <<"Contact Us">>]

C4_Witness ==
    \E w \in Workers :
        /\ Responded(w) /\ ctx[w].path = ContactPath /\ engineFailed
        /\ ctx[w].response.body = <<"Contact Us">>

-----------------------------------------------------------------------------
(* C5 *)

\* C5: two answered requests for the same path have the same outcome and
\* the same response.  A worker holds its response until it is sent, and
\* the other workers handle any sequence of requests meanwhile, so the two
\* are the same request issued twice with any requests in between.
C5_Idempotent ==
    \A w1 \in Workers : \A w2 \in Workers :
        (Responded(w1) /\ Responded(w2) /\ ctx[w1].path = ctx[w2].path)
        => /\ ctx[w1].response = ctx[w2].response
           /\ ctx[w1].outcome = ctx[w2].outcome

C5_Witness ==
    \E w1 \in Workers : \E w2 \in Workers :
        /\ w1 # w2 /\ Responded(w1) /\ Responded(w2)
        /\ ctx[w1].path = ctx[w2].path
        /\ ctx[w1].endpoint = "user"
        /\ ctx[w1].response = ctx[w2].response

-----------------------------------------------------------------------------
(* C6 *)

\* C6 as stated: for every name segment, the empty one included, the user
\* view is invoked and hands the segment itself to the engine under name,
\* with the template index.html.
C6_Original ==
    \A w \in Workers : \A v \in Names :
        (Responded(w) /\ ctx[w].path = UserPath(v))
        => /\ ctx[w].endpoint = "user"
           /\ Len(ctx[w].calls) = 1
           /\ ctx[w].calls[1].template = "index.html"
           /\ ctx[w].calls[1].context = ("name" :> v)

\* C6 amended: for every non-empty name segment, those with special
\* characters and white space included, the user view is invoked and hands
\* the segment itself to the engine under name, with the template
\* index.html; for the empty segment no rule matches, no view is invoked
\* and the runtime answers 404.
C6_PassThrough ==
    \A w \in Workers : \A v \in Names :
        (Responded(w) /\ ctx[w].path = UserPath(v))
        => IF v = << >>
           THEN /\ ctx[w].endpoint = ""
                /\ ctx[w].calls = << >>
                /\ ctx[w].response.status = 404
           ELSE /\ ctx[w].endpoint = "user"
                /\ Len(ctx[w].calls) = 1
                /\ ctx[w].calls[1].template = "index.html"
                /\ ctx[w].calls[1].context = ("name" :> v)

C6_Witness ==
    \E w \in Workers :
        /\ Responded(w) /\ ctx[w].path = UserPath(<<" ">>)
        /\ Len(ctx[w].calls) = 1
        /\ ctx[w].calls[1].context["name"] = <<" ">>

-----------------------------------------------------------------------------
(* C7 *)

\* C7: when the engine raises on a /user/{name} request, the outcome of
\* the user view is that very exception and no text, and the runtime
\* answers with its own page; once the engine has failed, / , /about and
\* /contact are still answered with their texts and a /user/{name} request
\* still calls the engine once and has what the engine gives as outcome.
C7_FailurePropagates ==
    \A w \in Workers :
        /\ (Responded(w) /\ ctx[w].endpoint = "user" /\ Len(ctx[w].calls) >= 1
              /\ ctx[w].calls[1].result.kind = "raise")
           => /\ ctx[w].outcome = ctx[w].calls[1].result
              /\ ctx[w].outcome.body = << >>
              /\ ctx[w].response.status = 500
        /\ (Responded(w) /\ engineFailed)
           => /\ ctx[w].path = RootPath => ctx[w].response.body = <<"HELLO WORLD">>
              /\ ctx[w].path = AboutPath => ctx[w].response.body = <<"This is about">>
              /\ ctx[w].path = ContactPath => ctx[w].response.body = <<"Contact Us">>
              /\ ctx[w].endpoint = "user"
                 => Len(ctx[w].calls) = 1 /\ ctx[w].outcome = ctx[w].calls[1].result

C7_Witness ==
    \E w1 \in Workers : \E w2 \in Workers :
        /\ Responded(w1) /\ ctx[w1].endpoint = "user"
        /\ ctx[w1].outcome = Raise("TemplateNotFound")
        /\ Responded(w2) /\ ctx[w2].path = ContactPath
        /\ ctx[w2].response.status = 200

-----------------------------------------------------------------------------
(* C8 *)

\* The response to a path when its request is handled with no other
\* request in the system.
AloneResponse(path) ==
    LET m == MatchRequest(url_map, path)
    IN  MakeResponse(IF m.endpoint = "" THEN Raise("NotFound")
                     ELSE ViewFunction(m.endpoint, m.view_args).outcome)

\* C8: whatever the interleaving of the workers' steps, the response of
\* every answered request is the response the same request gets alone.
C8_Isolation ==
    \A w \in Workers :
        Responded(w) => ctx[w].response = AloneResponse(ctx[w].path)

C8_Witness ==
    \E w1 \in Workers : \E w2 \in Workers :
        /\ Responded(w1) /\ ctx[w1].path = UserPath(<<"about">>)
        /\ Responded(w2) /\ ctx[w2].path = UserPath(<<"<">>)
        /\ TemplateRenders
        /\ ctx[w1].response # ctx[w2].response

-----------------------------------------------------------------------------
(* C9 *)

\* C9: an answered request has called the engine exactly once when it was
\* dispatched to user and not at all otherwise; / , /about and /contact
\* are answered with status 200 whatever the state of the template folder.
C9_EngineOnlyForUser ==
    \A w \in Workers :
        Responded(w)
        => /\ ctx[w].endpoint = "user" => Len(ctx[w].calls) = 1
           /\ ctx[w].endpoint # "user" => ctx[w].calls = << >>
           /\ ctx[w].path \in {RootPath, AboutPath, ContactPath}
              => ctx[w].response.status = 200 /\ ctx[w].outcome.kind = "return"

C9_Witness ==
    \E w1 \in Workers : \E w2 \in Workers :
        /\ ~TemplateRenders
        /\ Responded(w1) /\ ctx[w1].path = AboutPath /\ ctx[w1].calls = << >>
        /\ ctx[w1].response.status = 200
        /\ Responded(w2) /\ ctx[w2].endpoint = "user" /\ Len(ctx[w2].calls) = 1

-----------------------------------------------------------------------------
(* C10 *)

\* C10: the route table always holds exactly four rules bound to views of
\* app.py, the ones registered at start; the path of every request matches
\* at most one of them; /user/about is dispatched to user, as every request
\* is to the view of the rule it matches; a request whose path matches
\* none of the four is dispatched to no view of app.py and calls nothing
\* of it.
C10_RouteTable ==
    /\ Cardinality(AppRules) = 4
    /\ url_map = {StaticRule, HelloRule, AboutRule, ContactRule, UserRule}
    /\ \A w \in Workers :
          ctx[w].pc # "idle"
          => LET matching == AppRulesMatching(ctx[w].path)
             IN  /\ Cardinality(matching) <= 1
                 /\ ctx[w].path = UserPath(<<"about">>) => ctx[w].endpoint = "user"
                 /\ matching = {}
                    => ctx[w].endpoint \notin AppEndpoints /\ ctx[w].calls = << >>
                 /\ \A r \in matching : ctx[w].endpoint = r.endpoint

C10_Witness ==
    \E w1 \in Workers : \E w2 \in Workers :
        /\ Responded(w1) /\ ctx[w1].path = UserPath(<<"about">>)
        /\ ctx[w1].endpoint = "user"
        /\ Responded(w2) /\ ctx[w2].path = <<SLASH, "about", SLASH>>
        /\ ctx[w2].endpoint = "" /\ ctx[w2].response.status = 404

=============================================================================
